---- MODULE Spec2Model ----
(***************************************************************************)
(* State-machine model of janus-js (dist/janus.js): Janus.Connection (the  *)
(* http:// poll transport and the ws:// socket transport), Janus.Session   *)
(* (transactions, plugins, connect/disconnect, handleEvent) and            *)
(* Janus.Plugin (attach/detach, peer connection, offer/answer,             *)
(* sendMessage).                                                           *)
(*                                                                         *)
(* JavaScript runs each handler to completion, so every action below is    *)
(* one handler (a user call, an ajax completion, a socket event, a timer   *)
(* or a deferred function) with everything it calls.  Handlers are written *)
(* as operators from a state record to a state record so that a handler    *)
(* can call another one; an action applies one to the current state.       *)
(***************************************************************************)
EXTENDS Integers, Sequences, FiniteSets, TLC

\* ------------------------------------------------------------- bounds
NumPlugins == 2      \* Janus.Plugin objects the application created
MaxId      == 2      \* ids the gateway hands out are 1..MaxId
MaxCalls   == 3      \* requests / continuations issued in one behaviour
MaxCxn     == 1      \* Janus.Connection objects constructed in one behaviour
MaxCaptures == 2     \* capability callbacks pending per plugin while events drive it
MaxPending == 1      \* external-capability callbacks pending per plugin
MaxOffers == 2       \* the same while createOffer/createAnswer calls overlap
MaxSdp     == 2      \* distinct descriptions the media engine may produce
MaxTransports == 2   \* Connections the application's connect()/reconnect() calls construct

\* ------------------------------------------------------------- values
Null   == 0          \* JavaScript null (and "no entry" in a map)
Undef  == -1         \* JavaScript undefined used as a value or as a key
NoData == -2         \* a payload that is itself undefined (no data object)
Absent == -3         \* a frame without plugindata

Plugins  == 1..NumPlugins
Ids      == 1..MaxId
Keys     == Ids \cup {Undef}            \* keys session.plugins can hold
Payloads == Ids \cup {Undef, NoData}    \* the id a payload carries
Tokens   == 1..MaxCalls                 \* a request's transaction token
SdpVals  == 1..MaxSdp
NoSdp    == <<"none", 0>>               \* attribute sdp is null
Descs    == {"offer", "answer"} \X SdpVals
NoJsep   == "none"                      \* a frame or request without jsep
TaskKinds == {"offer", "answer", "remoteOffer", "remoteAnswer",
              "deferOffer", "deferAnswer",
              "captureNone", "captureOffer", "captureAnswer", "captureApp"}

\* A flag of the media attribute: a boolean, undefined or null.
Flags == {"true", "false", "undefined", "null"}
\* The parent kind flags (audio, video) may also hold a non-boolean value.
KindFlags == Flags \cup {"other"}

VARIABLES
    server,        \* "http" or "ws": scheme of cxnConfig.server
    sessionId,     \* Session attribute id
    cxn,           \* Session.cxn: Null or the index of a Connection
    transactions,  \* Session.transactions: tokens that hold a callback
    plugins,       \* Session.plugins: key -> plugin (Null: no entry)
    plugin,        \* the attributes and session of every Janus.Plugin
    conns,         \* every Janus.Connection constructed so far
    calls,         \* every request/continuation issued; token = index
    emitted,       \* notifications triggered by the last handler, in order
    thrown,        \* the last handler ended in an uncaught TypeError
    hist           \* history: per plugin, negotiation facts since last reset

vars == <<server, sessionId, cxn, transactions, plugins, plugin, conns,
          calls, emitted, thrown, hist>>

\* The state as one record, so that handlers compose.
Cur == [server |-> server, sessionId |-> sessionId, cxn |-> cxn,
        transactions |-> transactions, plugins |-> plugins,
        plugin |-> plugin, conns |-> conns, calls |-> calls,
        emitted |-> <<>>, thrown |-> FALSE, hist |-> hist]

Commit(s) ==
    /\ server' = s.server
    /\ sessionId' = s.sessionId
    /\ cxn' = s.cxn
    /\ transactions' = s.transactions
    /\ plugins' = s.plugins
    /\ plugin' = s.plugin
    /\ conns' = s.conns
    /\ calls' = s.calls
    /\ emitted' = s.emitted
    /\ thrown' = s.thrown
    /\ hist' = s.hist

\* Backbone trigger(): one notification, on the plugin or on the session.
Trigger(s, src, ev, arg) ==
    [s EXCEPT !.emitted = Append(@, [src |-> src, ev |-> ev, arg |-> arg])]

\* An uncaught TypeError: the rest of the running handler is skipped.
Throw(s) == [s EXCEPT !.thrown = TRUE]

\* The caller's own continuation (func in the _.wrap()ped options).
CallerSuccess(s, r) == [s EXCEPT !.calls[r].succ = @ + 1]
CallerError(s, r)   == [s EXCEPT !.calls[r].err = @ + 1]

\* ------------------------------------------------------ Janus.Plugin
NoTasks == [k \in TaskKinds |-> 0]

\* defaults.media: the four directions and data are false, audio and video
\* are not given.
DefaultMedia ==
    [present |-> TRUE, audio |-> "undefined", video |-> "undefined",
     audioRecv |-> "false", audioSend |-> "false",
     videoRecv |-> "false", videoSend |-> "false", data |-> "false"]

\* attribute media is undefined or null
NoMedia ==
    [present |-> FALSE, audio |-> "undefined", video |-> "undefined",
     audioRecv |-> "undefined", audioSend |-> "undefined",
     videoRecv |-> "undefined", videoSend |-> "undefined", data |-> "undefined"]

\* stale: an RTCPeerConnection that createPeerConnection replaced without
\* closing it still exists; its handlers keep running on the Handle.
PluginDefaults ==
    [id |-> Null, session |-> FALSE, sdp |-> NoSdp, sdpSent |-> FALSE,
     pc |-> FALSE, stale |-> FALSE, dataChannel |-> FALSE, iceTrickle |-> TRUE,
     iceDone |-> FALSE, localStream |-> FALSE, media |-> DefaultMedia, tasks |-> NoTasks]

\* first: the first description the capability produced since the last
\* hangupPeerConnection; plain: a sendMessage without options.jsep was
\* issued since the local description was set;
\* turn: the call (attach or detach) an alternating application makes next;
\* auto: the createAnswer now pending was issued by the success callback of
\* setRemoteDescription, for an offer accepted while the plugin was attached
\* and had no local description.
HistDefaults == [first |-> NoSdp, plain |-> FALSE, turn |-> "attach",
                 auto |-> FALSE]

isAttached(p) == p.session /\ p.id # Null

\* a send-enabled predicate that looks at the direction flag only
isAudioSendEnabledIgnoresKind(media) ==
    IF ~media.present THEN TRUE
    ELSE IF media.audioSend \in {"undefined", "null"} THEN TRUE
    ELSE media.audioSend = "true"

\* The media predicates; media is the argument or this.get("media").
isAudioSendEnabled(media) ==
    IF ~media.present THEN TRUE
    ELSE IF media.audio = "false" THEN FALSE
    ELSE IF media.audioSend \in {"undefined", "null"} THEN TRUE
    ELSE media.audioSend = "true"

isAudioRecvEnabled(media) ==
    IF ~media.present THEN TRUE
    ELSE IF media.audio = "false" THEN FALSE
    ELSE IF media.audioRecv \in {"undefined", "null"} THEN TRUE
    ELSE media.audioRecv = "true"

isVideoSendEnabled(media) ==
    IF ~media.present THEN TRUE
    ELSE IF media.video = "false" THEN FALSE
    ELSE IF media.videoSend \in {"undefined", "null"} THEN TRUE
    ELSE media.videoSend = "true"

isVideoRecvEnabled(media) ==
    IF ~media.present THEN TRUE
    ELSE IF media.video = "false" THEN FALSE
    ELSE IF media.videoRecv \in {"undefined", "null"} THEN TRUE
    ELSE media.videoRecv = "true"

isDataEnabled(media) ==
    IF ~media.present THEN TRUE ELSE media.data = "true"

hangupPeerConnection(s, h) ==
    [s EXCEPT !.plugin[h].sdp = NoSdp,
              !.plugin[h].sdpSent = FALSE,
              !.plugin[h].pc = FALSE,
              !.plugin[h].dataChannel = FALSE,
              !.plugin[h].iceDone = FALSE,
              !.plugin[h].localStream = FALSE,
              !.hist[h].first = NoSdp,
              !.hist[h].plain = FALSE]

detached(s, h) ==
    LET p  == s.plugin[h]
        s1 == IF p.session
              THEN LET d == IF p.id \in Keys
                            THEN [s EXCEPT !.plugins[p.id] = Null]
                            ELSE s
                       t == Trigger(Trigger(d, "plugin", "janus:detach", h),
                                    "session", "janus:detach", h)
                   IN [t EXCEPT !.plugin[h].session = FALSE]
              ELSE s
    IN hangupPeerConnection([s1 EXCEPT !.plugin[h].id = Null], h)

\* detach() wraps the caller's continuations and returns: it sends nothing
\* and never calls detached().
detach(s, h) == s

\* ---- the external capability (RTCPeerConnection): pending callbacks
TaskCount(p) ==
    p.tasks["offer"] + p.tasks["answer"] + p.tasks["remoteOffer"]
    + p.tasks["remoteAnswer"] + p.tasks["deferOffer"] + p.tasks["deferAnswer"]
    + p.tasks["captureNone"] + p.tasks["captureOffer"] + p.tasks["captureAnswer"]
    + p.tasks["captureApp"]

\* getUserMedia() pending, with the options.success it will continue with:
\* createPeerConnection(options) again, where k names that call's
\* options.success, or nothing ("app": the application called
\* getUserMedia() itself, options.success is a no-op)
CaptureKind(k) ==
    CASE k = "deferOffer"  -> "captureOffer"
      [] k = "deferAnswer" -> "captureAnswer"
      [] k = "app"         -> "captureApp"
      [] OTHER             -> "captureNone"

AddTask(s, h, k) == [s EXCEPT !.plugin[h].tasks[k] = @ + 1]
DropTask(s, h, k) == [s EXCEPT !.plugin[h].tasks[k] = @ - 1]

\* getUserMedia(options): the sources, then the stream, are asked for
getUserMedia(s, h, k) == AddTask(s, h, CaptureKind(k))

\* createPeerConnection(options); k names options.success: "none" for a
\* no-op, else the deferred setRemoteDescription(jsep) of handleEvent.
createPeerConnection(s, h, k) ==
    LET p == s.plugin[h] IN
    IF ~p.localStream /\ (isAudioSendEnabled(p.media) \/ isVideoSendEnabled(p.media))
    THEN getUserMedia(s, h, k)
    ELSE IF ~p.session
    THEN Throw(s)                       \* this.session.iceServers
    ELSE LET s1 == [s EXCEPT !.plugin[h].pc = TRUE,
                             !.plugin[h].stale = @ \/ p.pc,  \* not closed
                             !.plugin[h].dataChannel =
                                 IF isDataEnabled(p.media) THEN TRUE ELSE @]
         IN IF k = "none" THEN s1 ELSE AddTask(s1, h, k)

createOffer(s, h) ==
    IF ~s.plugin[h].pc THEN Throw(s) ELSE AddTask(s, h, "offer")

\* createAnswer(options); given: the caller passed an options object.
\* There is no "options = options || {}": without one, reading
\* options.error throws before the capability is invoked.
createAnswer(s, h, given) ==
    IF ~s.plugin[h].pc \/ ~given THEN Throw(s) ELSE AddTask(s, h, "answer")

\* setRemoteDescription(description): type is description.type
setRemoteDescription(s, h, type) ==
    IF ~s.plugin[h].pc THEN Throw(s)
    ELSE AddTask(s, h, IF type = "offer" THEN "remoteOffer" ELSE "remoteAnswer")

\* The success callback createOffer/createAnswer hands to the capability;
\* type is "offer" or "answer", v the description it produced.
descriptionCreated(s, h, type, v) ==
    LET p  == s.plugin[h]
        s0 == [s EXCEPT !.hist[h].first =
                  IF @ = NoSdp THEN <<type, v>> ELSE @]
        s1 == IF p.sdp = NoSdp
              THEN LET a == [s0 EXCEPT !.plugin[h].sdp = <<type, v>>]
                   IN IF ~p.pc THEN Throw(a) ELSE a   \* pc.setLocalDescription
              ELSE s0
    IN IF s1.thrown THEN s1
       ELSE Trigger(s1, "plugin", "webrtc:" \o type, <<type, v>>)

\* a Handle that re-emits only the events no jsep accompanies
pluginHandleEventQuietOnJsep(s, h, jsep) ==
    LET p  == s.plugin[h]
        s1 == IF jsep # NoJsep
              THEN IF ~p.pc
                   THEN createPeerConnection(s, h,
                            IF jsep = "offer" THEN "deferOffer" ELSE "deferAnswer")
                   ELSE setRemoteDescription(s, h, jsep)
              ELSE s
    IN IF s1.thrown \/ jsep # NoJsep THEN s1
       ELSE Trigger(s1, "plugin", "janus:event", h)

\* Janus.Plugin.handleEvent(data, jsep)
pluginHandleEvent(s, h, jsep) ==
    LET p  == s.plugin[h]
        s1 == IF jsep # NoJsep
              THEN IF ~p.pc
                   THEN createPeerConnection(s, h,
                            IF jsep = "offer" THEN "deferOffer" ELSE "deferAnswer")
                   ELSE setRemoteDescription(s, h, jsep)
              ELSE s
    IN IF s1.thrown THEN s1 ELSE Trigger(s1, "plugin", "janus:event", h)

\* ------------------------------------------------------ Janus.Session
isConnected(s) == s.cxn # Null

\* _.values(this.plugins): integer-like keys ascending, then "undefined".
KeyOrder == [i \in 1..(MaxId + 1) |-> IF i <= MaxId THEN i ELSE Undef]

RECURSIVE DetachEach(_, _, _)
DetachEach(s, vals, i) ==
    IF i > Len(vals) THEN s
    ELSE DetachEach(IF vals[i] = Null THEN s ELSE detached(s, vals[i]),
                    vals, i + 1)

RECURSIVE DropPending(_, _, _)
DropPending(cs, pending, r) ==
    IF r > Len(cs) THEN cs
    ELSE DropPending(IF r \in pending THEN [cs EXCEPT ![r].lost = TRUE] ELSE cs,
                     pending, r + 1)

disconnected(s) ==
    LET id   == s.sessionId
        vals == [i \in 1..(MaxId + 1) |-> s.plugins[KeyOrder[i]]]
        s1   == [s EXCEPT !.cxn = Null, !.sessionId = Null]
        s2   == DetachEach(s1, vals, 1)
        s3   == [s2 EXCEPT !.plugins = [k \in Keys |-> Null],
                           !.transactions = {},
                           !.calls = DropPending(s.calls, s.transactions, 1)]
    IN Trigger(s3, "session", "janus:disconnect", id)

\* connect() wraps options.success / options.error in place, and the
\* Connection reads them from the options object when its handshake is
\* answered.  reconnect() hands one options object to connect() from both
\* of its continuations, so the create calls made for one reconnect() share
\* their wrappers: each connect() wrapped the ones before it.
Wrappers(s, r) ==
    IF s.calls[r].opts = Null THEN {r}
    ELSE {q \in DOMAIN s.calls :
             s.calls[q].op = "create" /\ s.calls[q].opts = s.calls[r].opts}

Last(qs) == CHOOSE q \in qs : \A x \in qs : x <= q

\* the success wrappers of the create calls qs, the latest (outermost)
\* first; each sets cxn to the Connection its own connect() constructed
RECURSIVE connectWrappers(_, _, _)
connectWrappers(s, qs, data) ==
    IF qs = {} THEN s
    ELSE LET q  == Last(qs)
             s1 == [s EXCEPT !.cxn = s.calls[q].c]
         IN IF data = NoData THEN Throw(s1)            \* data.id
            ELSE connectWrappers(
                     Trigger([s1 EXCEPT !.sessionId = data],
                             "session", "janus:connect", data),
                     qs \ {q}, data)

RECURSIVE errorWrappers(_, _)
errorWrappers(s, qs) ==
    IF qs = {} THEN s
    ELSE errorWrappers(Trigger([s EXCEPT !.cxn = Null],
                               "session", "janus:error", "connect"),
                       qs \ {Last(qs)})

\* options.success / options.error as wrapped by connect(), the caller's
\* own continuation innermost
connectSuccess(s, r, data) ==
    LET s1 == connectWrappers(s, Wrappers(s, r), data) IN
    IF s1.thrown THEN s1 ELSE CallerSuccess(s1, r)

connectError(s, r) == CallerError(errorWrappers(s, Wrappers(s, r)), r)

\* options.success / options.error as wrapped by disconnect()
disconnectSuccess(s, r) == CallerSuccess(disconnected(s), r)
\* an error continuation that forgets the cleanup
disconnectErrorNoCleanup(s, r) == CallerError(s, r)
disconnectError(s, r) == CallerError(disconnected(s), r)

\* ---- records of Connections and of requests
NewConn(r) ==
    [connected |-> FALSE,
     ws        |-> "none",    \* the WebSocket: none/connecting/open/closing/closed
     wsRef     |-> FALSE,     \* this._ws is not null
     poll      |-> "none",    \* the poll loop: none / inflight / timer
     polls     |-> 0,         \* poll requests outstanding plus _httpPoll timers scheduled
     retries   |-> 0,         \* argument of the outstanding or scheduled _httpPoll
     ka        |-> 0,         \* scheduled _wsKeepAlive timers
     call      |-> r,         \* the connect() call that constructed it
     fails     |-> 0]         \* history: poll failures since the last successful poll

NewCall(op, h, c, net, jsep, explicit) ==
    [op |-> op, h |-> h, c |-> c, net |-> net, jsep |-> jsep,
     explicit |-> explicit,
     succ  |-> 0,        \* times the caller's success continuation ran
     err   |-> 0,        \* times the caller's error continuation ran
     fired |-> 0,        \* times the function stored in transactions[token] ran
     opts  |-> Null,     \* create: the reconnect() whose options object it was given
     lost  |-> FALSE]    \* dropped from transactions by disconnected()

WithCall(s, call) == [s EXCEPT !.calls = Append(@, call)]

\* Session.connect(options); o names the options object: Null for one of
\* the call's own, else the reconnect() call that passes its options on
connect(s, o) ==
    LET r == Len(s.calls) + 1
        c == Len(s.conns) + 1 IN
    IF isConnected(s)
    THEN WithCall(s, NewCall("noop", Null, Null, "deferred", NoSdp, FALSE))
    ELSE LET s1 == WithCall(s, [NewCall("create", Null, c,
                        IF s.server = "http" THEN "inflight" ELSE "ws",
                        NoSdp, FALSE) EXCEPT !.opts = o])
         IN [s1 EXCEPT !.conns = Append(@,
                [NewConn(r) EXCEPT !.ws = IF s.server = "ws" THEN "connecting" ELSE "none",
                                   !.wsRef = (s.server = "ws")])]

\* options.success / options.error that reconnect() hands to disconnect(),
\* inside disconnect()'s wrappers: the cleanup, then connect(options)
reconnectSuccess(s, r) == connect(CallerSuccess(disconnected(s), r), r)
reconnectError(s, r) == connect(CallerError(disconnected(s), r), r)

\* options.success / options.error as wrapped by Plugin.attach()
attachSuccess(s, r, data) ==
    LET h  == s.calls[r].h
        s1 == [s EXCEPT !.plugin[h].session = TRUE] IN
    IF data = NoData THEN Throw(s1)                    \* data.id
    ELSE LET s2 == [s1 EXCEPT !.plugin[h].id = data,
                              !.plugins[data] = h]
             s3 == CallerSuccess(s2, r)
         IN Trigger(Trigger(s3, "plugin", "janus:attach", h),
                    "session", "janus:attach", h)

attachError(s, r) ==
    LET h == s.calls[r].h IN
    Throw(CallerError([s EXCEPT !.plugin[h].session = FALSE], r))

\* options.success / options.error as wrapped by Plugin.sendMessage()
messageSuccess(s, r) ==
    LET h  == s.calls[r].h
        s1 == IF s.calls[r].jsep # NoSdp
              THEN [s EXCEPT !.plugin[h].sdpSent = TRUE]
              ELSE s
    IN CallerSuccess(s1, r)

messageError(s, r) == CallerError(s, r)

\* The function stored in transactions[token] (options.success of the call)
invokeSuccess(s, r, data) ==
    CASE s.calls[r].op = "create"  -> connectSuccess(s, r, data)
      [] s.calls[r].op = "destroy" -> disconnectSuccess(s, r)
      [] s.calls[r].op = "reconnect" -> reconnectSuccess(s, r)
      [] s.calls[r].op = "attach"  -> attachSuccess(s, r, data)
      [] s.calls[r].op = "message" -> messageSuccess(s, r)
      [] OTHER                     -> CallerSuccess(s, r)

\* options.error of the call
invokeError(s, r) ==
    CASE s.calls[r].op = "create"  -> connectError(s, r)
      [] s.calls[r].op = "destroy" -> disconnectError(s, r)
      [] s.calls[r].op = "reconnect" -> reconnectError(s, r)
      [] s.calls[r].op = "attach"  -> attachError(s, r)
      [] s.calls[r].op = "message" -> messageError(s, r)
      [] OTHER                     -> CallerError(s, r)

\* callback() that returns the function without deleting its entry
callbackKeepsEntry(s, t, data) ==
    IF t \in s.transactions
    THEN invokeSuccess([s EXCEPT !.calls[t].fired = @ + 1], t, data)
    ELSE s

\* callback(transaction)(data) of handleEvent
callback(s, t, data) ==
    IF t \in s.transactions
    THEN invokeSuccess([s EXCEPT !.transactions = @ \ {t},
                                !.calls[t].fired = @ + 1], t, data)
    ELSE s

\* handleEvent whose event branch resolves the frame's transaction before
\* it looks the sender up
handleEventResolvesFirst(s, f) ==
    CASE f.janus = "batch" -> Throw(s)
      [] f.janus = "success" ->
            IF f.plugindata = Absent
            THEN callback(s, f.transaction, f.data)
            ELSE callback(s, f.transaction, f.plugindata)
      [] f.janus = "error" -> callback(s, f.transaction, Undef)
      [] f.janus \in {"keepalive", "ack", "webrtcup"} -> s
      [] f.janus \in {"hangup", "detached"} ->
            IF s.plugins[f.sender] = Null THEN s
            ELSE detach(s, s.plugins[f.sender])
      [] f.janus = "event" ->
            IF f.sender = Undef THEN s
            ELSE IF f.plugindata = Absent THEN s
            ELSE LET s0 == callback(s, f.transaction, f.plugindata) IN
                 IF s0.thrown \/ s.plugins[f.sender] = Null THEN s0
                 ELSE pluginHandleEvent(s0, s.plugins[f.sender], f.jsep)
      [] OTHER -> s

\* Janus.Session.handleEvent(json) for one frame
handleEvent(s, f) ==
    CASE f.janus = "batch" -> Throw(s)        \* _.each(json, this.handleEvent)
      [] f.janus = "success" ->
            IF f.plugindata = Absent
            THEN callback(s, f.transaction, f.data)
            ELSE callback(s, f.transaction, f.plugindata)
      [] f.janus = "error" -> callback(s, f.transaction, Undef)
      [] f.janus \in {"keepalive", "ack", "webrtcup"} -> s
      [] f.janus \in {"hangup", "detached"} ->
            IF s.plugins[f.sender] = Null THEN s
            ELSE detach(s, s.plugins[f.sender])
      [] f.janus = "event" ->
            IF f.sender = Undef THEN s
            ELSE IF f.plugindata = Absent THEN s
            ELSE IF s.plugins[f.sender] = Null THEN s
            ELSE LET s1 == pluginHandleEvent(s, s.plugins[f.sender], f.jsep)
                 IN IF s1.thrown THEN s1
                    ELSE callback(s1, f.transaction, f.plugindata)
      [] OTHER -> s

\* handleEvent(json) for an array of frames: _.each(json, this.handleEvent)
\* calls handleEvent for the first element without its receiver, and the
\* first statement of the body, this.get("id"), throws.  An empty array
\* calls nothing.
handleBatch(s, fs) == IF fs = <<>> THEN s ELSE Throw(s)

\* The frames of fs handled one after another as single frames.
RECURSIVE handleEach(_, _, _)
handleEach(s, fs, i) ==
    IF i > Len(fs) \/ s.thrown THEN s
    ELSE handleEach(handleEvent(s, fs[i]), fs, i + 1)

\* --------------------------------------------------- Janus.Connection
maxPollRetries == 3

\* _httpPoll(retries)
httpPoll(s, c, retries) ==
    IF ~s.conns[c].connected
    THEN [s EXCEPT !.conns[c].poll = "none"]
    ELSE [s EXCEPT !.conns[c].poll = "inflight", !.conns[c].retries = retries,
                   !.conns[c].polls = @ + 1]

\* _httpSend(req, options) for the call r, already recorded in calls
httpSend(s, r) ==
    [s EXCEPT !.transactions = @ \cup {r}, !.calls[r].net = "inflight"]

\* _wsSend(req, options) for the call r
wsSend(s, r) ==
    LET s1 == [s EXCEPT !.transactions = @ \cup {r}, !.calls[r].net = "ws"]
    IN IF ~s.conns[s.calls[r].c].wsRef THEN Throw(s1) ELSE s1   \* this._ws.send

\* Connection.send(req, options): this._send
send(s, r) == IF s.server = "http" THEN httpSend(s, r) ELSE wsSend(s, r)

\* _httpClose(options) / _wsClose(options) for the disconnect call r
httpClose(s, r) ==
    httpSend([s EXCEPT !.conns[s.calls[r].c].connected = FALSE], r)

wsClose(s, r) ==
    LET c == s.calls[r].c IN
    [s EXCEPT !.conns[c].ws = IF s.conns[c].wsRef /\ @ \in {"connecting", "open"}
                              THEN "closing" ELSE @,
              !.conns[c].wsRef = FALSE,
              !.conns[c].connected = FALSE,
              !.calls[r].net = "deferred"]

close(s, r) == IF s.server = "http" THEN httpClose(s, r) ELSE wsClose(s, r)

\* _wsKeepAlive(): the keep-alive itself registers nothing
wsKeepAliveSends(s, c) == s.conns[c].connected /\ s.sessionId \in Ids

\* _wsKeepAlive() that does not leave the loop when the transport is not
\* connected
wsKeepAliveNoExit(s, c) ==
    IF s.sessionId \in Ids /\ ~s.conns[c].wsRef THEN Throw(s)
    ELSE [s EXCEPT !.conns[c].ka = @ + 1]

wsKeepAlive(s, c) ==
    IF ~s.conns[c].connected THEN s
    ELSE IF wsKeepAliveSends(s, c) /\ ~s.conns[c].wsRef THEN Throw(s)
    ELSE [s EXCEPT !.conns[c].ka = @ + 1]

\* ------------------------------------------------------------ frames
Frame(j, t, sender, pd, jsep, data) ==
    [janus |-> j, transaction |-> t, sender |-> sender, plugindata |-> pd,
     jsep |-> jsep, data |-> data]

ErrorFrame(r) == Frame("error", r, Undef, Absent, NoJsep, NoData)
SuccessFrame(r, d) == Frame("success", r, Undef, Absent, NoJsep, d)

\* The frames the gateway may deliver: toks are the transaction tokens it
\* may echo, jseps the descriptors an event may carry.
Frames(toks, jseps) ==
    {Frame("success", t, Undef, Absent, NoJsep, d) :
        t \in {Null} \cup toks, d \in Payloads}
    \cup {Frame("success", t, Undef, Undef, NoJsep, NoData) :
        t \in {Null} \cup toks}
    \cup {Frame(j, t, Undef, Absent, NoJsep, NoData) :
        j \in {"error", "ack", "keepalive", "webrtcup"}, t \in {Null} \cup toks}
    \cup {Frame(j, Null, k, Absent, NoJsep, NoData) :
        j \in {"hangup", "detached"}, k \in Keys}
    \cup {Frame("event", t, k, Undef, js, NoData) :
        t \in {Null} \cup toks, k \in Keys, js \in {NoJsep} \cup jseps}
    \cup {Frame("event", Null, k, Absent, NoJsep, NoData) : k \in Keys}
    \cup {Frame(j, Null, Undef, Absent, NoJsep, NoData) : j \in {"bogus", "batch"}}

\* Tokens the session has generated so far.
Issued == 1..Len(calls)

\* What the gateway may answer to the ajax request of call r: a frame that
\* echoes the request's transaction token.
Responses(r, jseps) == {f \in Frames({r}, jseps) : f.transaction = r}

\* -------------------------------------------------------------- Init
Init ==
    /\ server \in {"http", "ws"}
    /\ sessionId = Null
    /\ cxn = Null
    /\ transactions = {}
    /\ plugins = [k \in Keys |-> Null]
    /\ plugin = [h \in Plugins |-> PluginDefaults]
    /\ conns = <<>>
    /\ calls = <<>>
    /\ emitted = <<>>
    /\ thrown = FALSE
    /\ hist = [h \in Plugins |-> HistDefaults]

\* A handler's result becomes the next state (pending capability callbacks
\* are capped: a handler may add one only while at most MaxPending result).
Step(s) ==
    /\ \A h \in Plugins :
          TaskCount(s.plugin[h]) <= IF TaskCount(plugin[h]) > MaxPending
                                    THEN TaskCount(plugin[h]) ELSE MaxPending
    /\ Commit(s)

\* ------------------------------------------------- application calls
Connect == Step(connect(Cur, Null))

\* Session.disconnect()
disconnect(s) ==
    LET r == Len(s.calls) + 1 IN
    IF ~isConnected(s)
    THEN WithCall(s, NewCall("destroy", Null, Null, "deferred", NoSdp, FALSE))
    ELSE close(WithCall(s, NewCall("destroy", Null, s.cxn, "new", NoSdp, FALSE)), r)

Disconnect == Step(disconnect(Cur))

\* Session.reconnect(): disconnect() with continuations that call connect()
reconnect(s) ==
    LET r == Len(s.calls) + 1 IN
    IF ~isConnected(s)
    THEN WithCall(s, NewCall("reconnect", Null, Null, "deferred", NoSdp, FALSE))
    ELSE close(WithCall(s, NewCall("reconnect", Null, s.cxn, "new", NoSdp, FALSE)), r)

Reconnect == Step(reconnect(Cur))

\* Plugin.attach(session)
attach(s, h) ==
    LET r == Len(s.calls) + 1 IN
    IF s.cxn = Null THEN Throw(s)                       \* session.cxn.send
    ELSE send(WithCall(s, NewCall("attach", h, s.cxn, "new", NoSdp, FALSE)), r)

Attach(h) == Step(attach(Cur, h))

\* Plugin.detach()
Detach(h) == Step(detach(Cur, h))

\* Plugin.sendMessage(message, options); j is options.jsep or NoSdp
sendMessage(s, h, j) ==
    LET r == Len(s.calls) + 1
        p == s.plugin[h]
        jsep == IF j # NoSdp THEN j
                ELSE IF p.sdp # NoSdp /\ ~p.sdpSent THEN p.sdp
                ELSE NoSdp IN
    IF ~p.session \/ s.cxn = Null THEN Throw(s)         \* this.session.cxn.send
    ELSE send(WithCall([s EXCEPT !.hist[h].plain =
                                     @ \/ (j = NoSdp /\ p.sdp # NoSdp)],
                       NewCall("message", h, s.cxn, "new", jsep, j # NoSdp)), r)

SendMessage(h, j) == Step(sendMessage(Cur, h, j))

\* What a trickle request carries as req.candidate (kept in the jsep field
\* of the call's record): a candidate, or {completed: true}. NoCandidate
\* is a null argument of sendIceCandidate.
Candidate == <<"candidate", 0>>
Completed == <<"completed", 0>>
NoCandidate == <<"null", 0>>

\* Plugin.sendIceCandidate(candidate): null is sent as {completed: true}
sendIceCandidate(s, h, cand) ==
    LET r == Len(s.calls) + 1
        p == s.plugin[h]
        c == IF cand # NoCandidate THEN cand ELSE Completed IN
    IF ~p.session \/ s.cxn = Null THEN Throw(s)         \* this.session.cxn.send
    ELSE send(WithCall(s, NewCall("trickle", h, s.cxn, "new", c, FALSE)), r)

\* The application calls sendIceCandidate itself.
SendIceCandidate(h, cand) == Step(sendIceCandidate(Cur, h, cand))

\* pc.onicecandidate(event): found says whether event.candidate is set
onicecandidate(s, h, found) ==
    LET p == s.plugin[h] IN
    IF found
    THEN LET s1 == sendIceCandidate(s, h, Candidate)
         IN IF s1.thrown THEN s1
            ELSE Trigger(s1, "plugin", "webrtc:icecandidate", h)
    ELSE LET s1 == [s EXCEPT !.plugin[h].iceDone = TRUE]
         IN IF p.iceTrickle THEN sendIceCandidate(s1, h, Completed)
            ELSE Trigger(s1, "plugin", "webrtc:icecomplete", h)

\* The capability reports a local candidate, or the end of gathering, on
\* the Handle's peer connection or on one it replaced and never closed.
IceCandidate(h, found) ==
    /\ plugin[h].pc \/ plugin[h].stale
    /\ Step(onicecandidate(Cur, h, found))

CreatePeerConnection(h) == Step(createPeerConnection(Cur, h, "none"))
CreateOffer(h) == Step(createOffer(Cur, h))
CreateAnswer(h, given) == Step(createAnswer(Cur, h, given))
HangupPeerConnection(h) == Step(hangupPeerConnection(Cur, h))
SetRemoteDescription(h, type) == Step(setRemoteDescription(Cur, h, type))
GetUserMedia(h) == Step(getUserMedia(Cur, h, "app"))

\* ------------------------------------------- http:// transport events
\* _httpSetup: ajax success(json), data is json.data
httpSetupSuccess(s, r, data) ==
    LET c  == s.calls[r].c
        s1 == connectSuccess([s EXCEPT !.conns[c].connected = TRUE,
                                       !.calls[r].net = "done"], r, data)
    IN IF s1.thrown THEN s1 ELSE httpPoll(s1, c, 0)

HttpSetupSuccess(r, data) ==
    /\ r \in DOMAIN calls
    /\ server = "http" /\ calls[r].op = "create" /\ calls[r].net = "inflight"
    /\ Step(httpSetupSuccess(Cur, r, data))

\* _httpSetup: ajax error
httpSetupError(s, r) ==
    connectError([s EXCEPT !.conns[s.calls[r].c].connected = FALSE,
                           !.calls[r].net = "done"], r)

HttpSetupError(r) ==
    /\ r \in DOMAIN calls
    /\ server = "http" /\ calls[r].op = "create" /\ calls[r].net = "inflight"
    /\ Step(httpSetupError(Cur, r))

\* _httpPoll: ajax success(json)
httpPollSuccess(s, c, f) ==
    handleEvent([s EXCEPT !.conns[c].poll =
                    IF s.conns[c].connected THEN "timer" ELSE "none",
                          !.conns[c].polls =
                    IF s.conns[c].connected THEN @ ELSE @ - 1,
                          !.conns[c].retries = 0,
                          !.conns[c].fails = 0], f)

HttpPollSuccess(c, f) ==
    /\ c \in DOMAIN conns
    /\ conns[c].poll = "inflight"
    /\ Step(httpPollSuccess(Cur, c, f))

\* an error callback that restarts the count on every schedule
httpPollErrorResets(s, c) ==
    [s EXCEPT !.conns[c].poll = "timer", !.conns[c].retries = 0,
              !.conns[c].fails = IF @ <= maxPollRetries THEN @ + 1 ELSE @]

\* _httpPoll: ajax error
httpPollError(s, c) ==
    LET n  == s.conns[c].retries + 1
        s0 == [s EXCEPT !.conns[c].fails = IF @ <= maxPollRetries THEN @ + 1 ELSE @] IN
    IF n < maxPollRetries
    THEN [s0 EXCEPT !.conns[c].poll = "timer", !.conns[c].retries = n]
    ELSE LET s1 == [s0 EXCEPT !.conns[c].poll = "none", !.conns[c].retries = 0,
                              !.conns[c].polls = @ - 1]
         IN IF s.conns[c].connected
            THEN disconnected(Trigger(s1, "session", "janus:error", "connection"))
            ELSE s1

HttpPollError(c) ==
    /\ c \in DOMAIN conns
    /\ conns[c].poll = "inflight"
    /\ Step(httpPollError(Cur, c))

\* the setTimeout of _httpPoll fires
PollTimer(c) ==
    /\ c \in DOMAIN conns
    /\ conns[c].poll = "timer"
    /\ Step(httpPoll([Cur EXCEPT !.conns[c].polls = @ - 1], c, conns[c].retries))

\* _httpSend: ajax success(json)
httpSendSuccess(s, r, f) == handleEvent([s EXCEPT !.calls[r].net = "done"], f)

HttpSendSuccess(r, f) ==
    /\ r \in DOMAIN calls
    /\ calls[r].op # "create" /\ calls[r].net = "inflight"
    /\ Step(httpSendSuccess(Cur, r, f))

\* _httpSend: ajax error
httpSendError(s, r) ==
    invokeError([s EXCEPT !.calls[r].net = "done",
                          !.transactions = @ \ {r}], r)

HttpSendError(r) ==
    /\ r \in DOMAIN calls
    /\ calls[r].op # "create" /\ calls[r].net = "inflight"
    /\ Step(httpSendError(Cur, r))

\* --------------------------------------------- ws:// transport events
\* ws.onopen
wsOnOpen(s, c) ==
    LET s1 == wsKeepAlive([s EXCEPT !.conns[c].ws = "open",
                                    !.conns[c].connected = TRUE], c)
    IN IF s1.thrown THEN s1 ELSE wsSend(s1, s.conns[c].call)

WsOpen(c) ==
    /\ c \in DOMAIN conns
    /\ conns[c].ws = "connecting"
    /\ Step(wsOnOpen(Cur, c))

\* ws.onmessage
WsMessage(c, f) ==
    /\ c \in DOMAIN conns
    /\ conns[c].ws \in {"open", "closing"}
    /\ Step(handleEvent(Cur, f))

\* ws.onclose
wsOnClose(s, c) ==
    LET s1 == [s EXCEPT !.conns[c].ws = "closed", !.conns[c].connected = FALSE]
        s2 == IF s1.cxn = c THEN disconnected(s1) ELSE s1
    IN [s2 EXCEPT !.conns[c].wsRef = FALSE]

WsClose(c) ==
    /\ c \in DOMAIN conns
    /\ conns[c].ws \in {"connecting", "open", "closing"}
    /\ Step(wsOnClose(Cur, c))

\* the setTimeout of _wsKeepAlive fires
KeepAliveTimer(c) ==
    /\ c \in DOMAIN conns
    /\ conns[c].ka > 0
    /\ Step(wsKeepAlive([Cur EXCEPT !.conns[c].ka = @ - 1], c))

\* ------------------------------------------------ deferred functions
\* _.defer(options.success) of connect(), disconnect() and _wsClose()
runDeferred(s, r) ==
    LET s1 == [s EXCEPT !.calls[r].net = "done"] IN
    CASE s.calls[r].op = "destroy"   -> disconnectSuccess(s1, r)
      [] s.calls[r].op = "reconnect" -> reconnectSuccess(s1, r)
      [] OTHER                       -> CallerSuccess(s1, r)

RunDeferred(r) ==
    /\ r \in DOMAIN calls
    /\ calls[r].net = "deferred"
    /\ Step(runDeferred(Cur, r))

\* ------------------------------------- external capability callbacks
OfferCreated(h, v) ==
    /\ plugin[h].tasks["offer"] > 0
    /\ Step(descriptionCreated(DropTask(Cur, h, "offer"), h, "offer", v))

AnswerCreated(h, v) ==
    /\ plugin[h].tasks["answer"] > 0
    /\ Step([descriptionCreated(DropTask(Cur, h, "answer"), h, "answer", v)
                EXCEPT !.hist[h].auto = FALSE])

\* success callback of pc.setRemoteDescription (inside setRemoteDescription)
\* options is never undefined here (options = options || {})
remoteAccepted(s, h, type) ==
    IF type = "offer" THEN createAnswer(s, h, TRUE) ELSE s

RemoteAccepted(h, type) ==
    LET k == IF type = "offer" THEN "remoteOffer" ELSE "remoteAnswer"
        s == remoteAccepted(DropTask(Cur, h, k), h, type)
    IN
    /\ plugin[h].tasks[k] > 0
    /\ Step([s EXCEPT !.hist[h].auto =
                 IF type = "offer"
                 THEN ~s.thrown /\ isAttached(plugin[h]) /\ plugin[h].sdp = NoSdp
                 ELSE @])

\* the deferred options.success of createPeerConnection (from handleEvent)
PeerConnectionReady(h, type) ==
    LET k == IF type = "offer" THEN "deferOffer" ELSE "deferAnswer" IN
    /\ plugin[h].tasks[k] > 0
    /\ Step(setRemoteDescription(DropTask(Cur, h, k), h, type))

\* getUserMedia succeeded: the stream is kept and announced, then
\* options.success runs: nothing for the application's own getUserMedia(),
\* else createPeerConnection is called again with the same options (k names
\* its options.success)
mediaCaptured(s, h, k) ==
    LET s1 == Trigger([s EXCEPT !.plugin[h].localStream = TRUE],
                      "plugin", "webrtc:localstream", h)
    IN IF k = "app" THEN s1 ELSE createPeerConnection(s1, h, k)

MediaCaptured(h, k) ==
    /\ plugin[h].tasks[CaptureKind(k)] > 0
    /\ Step(mediaCaptured(DropTask(Cur, h, CaptureKind(k)), h, k))

\* getUserMedia failed: options.error, a no-op
MediaDenied(h, k) ==
    /\ plugin[h].tasks[CaptureKind(k)] > 0
    /\ Step(DropTask(Cur, h, CaptureKind(k)))

\* the capability rejects: options.error || _.noop
CapabilityRejects(h, k) ==
    /\ k \in {"offer", "answer", "remoteOffer", "remoteAnswer"}
    /\ plugin[h].tasks[k] > 0
    /\ Step([DropTask(Cur, h, k) EXCEPT !.hist[h].auto =
                 IF k = "answer" THEN FALSE ELSE @])

\* -------------------------------------------------------------- Next
\* Room for one more call, and for one more Connection if connect() would
\* construct one.
CallRoom == Len(calls) < MaxCalls
ConnRoom == isConnected(Cur) \/ Len(conns) < MaxCxn

\* Session lifecycle on both transports: connect, disconnect, attach,
\* detach, and every transport event, with frames that carry no jsep.
Next ==
    \/ CallRoom /\ ConnRoom /\ Connect
    \/ CallRoom /\ Disconnect
    \/ \E h \in Plugins : CallRoom /\ Attach(h)
    \/ \E h \in Plugins : Detach(h)
    \/ \E r \in 1..MaxCalls, d \in Payloads : HttpSetupSuccess(r, d)
    \/ \E r \in 1..MaxCalls : HttpSetupError(r)
    \/ \E c \in 1..MaxCxn, f \in Frames(Issued, {}) : HttpPollSuccess(c, f)
    \/ \E c \in 1..MaxCxn : HttpPollError(c)
    \/ \E c \in 1..MaxCxn : PollTimer(c)
    \/ \E r \in 1..MaxCalls : \E f \in Responses(r, {}) : HttpSendSuccess(r, f)
    \/ \E r \in 1..MaxCalls : HttpSendError(r)
    \/ \E c \in 1..MaxCxn : WsOpen(c)
    \/ \E c \in 1..MaxCxn, f \in Frames(Issued, {}) : WsMessage(c, f)
    \/ \E c \in 1..MaxCxn : WsClose(c)
    \/ \E c \in 1..MaxCxn : KeepAliveTimer(c)
    \/ \E r \in 1..MaxCalls : RunDeferred(r)

Spec == Init /\ [][Next]_vars

\* Negotiation on one plugin: the lifecycle needed to attach it, then
\* createPeerConnection / createOffer / createAnswer (with or without an
\* options argument) / setRemoteDescription / hangupPeerConnection /
\* sendMessage in any order, and the capability's callbacks, each in a turn
\* of its own.  The gateway answers with well-formed success and error
\* frames and sends events that may carry a jsep.  Polls do not fail here
\* (Spec and CxnSpec cover that); the session is lost when the socket closes.
NegPlugins == {1}
Jseps == {"offer", "answer"}
NegId == 1                         \* the id the gateway assigns in this scenario
Explicit == <<"explicit", 0>>      \* a descriptor the caller passes as options.jsep

NegFrames ==
    {Frame("success", t, Undef, Absent, NoJsep, NegId) : t \in Issued}
    \cup {Frame("error", t, Undef, Absent, NoJsep, NoData) : t \in Issued}
    \cup {Frame("event", t, k, Undef, js, NoData) :
            t \in {Null} \cup Issued, k \in Ids, js \in {NoJsep} \cup Jseps}

NegNext ==
    \/ CallRoom /\ ConnRoom /\ Connect
    \/ \E h \in NegPlugins : CallRoom /\ Attach(h)
    \/ \E h \in NegPlugins, j \in {NoSdp, Explicit} : CallRoom /\ SendMessage(h, j)
    \/ \E h \in NegPlugins : CreatePeerConnection(h)
    \/ \E h \in NegPlugins : CreateOffer(h)
    \/ \E h \in NegPlugins, given \in BOOLEAN : CreateAnswer(h, given)
    \/ \E h \in NegPlugins, ty \in Jseps : SetRemoteDescription(h, ty)
    \/ \E h \in NegPlugins : HangupPeerConnection(h)
    \/ \E r \in 1..MaxCalls : HttpSetupSuccess(r, NegId)
    \/ \E c \in 1..MaxCxn, f \in NegFrames : HttpPollSuccess(c, f)
    \/ \E c \in 1..MaxCxn : PollTimer(c)
    \/ \E r \in 1..MaxCalls : \E f \in {g \in NegFrames : g.transaction = r} :
            HttpSendSuccess(r, f)
    \/ \E r \in 1..MaxCalls : HttpSendError(r)
    \/ \E c \in 1..MaxCxn : WsOpen(c)
    \/ \E c \in 1..MaxCxn, f \in NegFrames : WsMessage(c, f)
    \/ \E c \in 1..MaxCxn : WsClose(c)
    \/ \E h \in NegPlugins, v \in SdpVals : OfferCreated(h, v)
    \/ \E h \in NegPlugins, v \in SdpVals : AnswerCreated(h, v)
    \/ \E h \in NegPlugins, ty \in Jseps : RemoteAccepted(h, ty)
    \/ \E h \in NegPlugins, ty \in Jseps : PeerConnectionReady(h, ty)
    \/ \E h \in NegPlugins, k \in TaskKinds : CapabilityRejects(h, k)

NegSpec == Init /\ [][NegNext]_vars

\* Overlapping createOffer / createAnswer calls on one plugin: the
\* application calls either again while earlier ones have not completed
\* (up to MaxOffers capability callbacks pending), the completions come in
\* any order, and sendMessage, with or without options.jsep, and
\* hangupPeerConnection fall anywhere between them.  The gateway answers
\* every request with a success frame.
OfferFrames == {Frame("success", t, Undef, Absent, NoJsep, NegId) : t \in Issued}

OfferStep(s) ==
    /\ \A h \in Plugins : TaskCount(s.plugin[h]) <= MaxOffers
    /\ Commit(s)

OfferNext ==
    \/ CallRoom /\ ConnRoom /\ Connect
    \/ \E h \in NegPlugins : CallRoom /\ Attach(h)
    \/ \E h \in NegPlugins, j \in {NoSdp, Explicit} : CallRoom /\ SendMessage(h, j)
    \/ \E h \in NegPlugins : CreatePeerConnection(h)
    \/ \E h \in NegPlugins : OfferStep(createOffer(Cur, h))
    \/ \E h \in NegPlugins, given \in BOOLEAN : OfferStep(createAnswer(Cur, h, given))
    \/ \E h \in NegPlugins : HangupPeerConnection(h)
    \/ \E r \in 1..MaxCalls : HttpSetupSuccess(r, NegId)
    \/ \E c \in 1..MaxCxn, f \in OfferFrames : HttpPollSuccess(c, f)
    \/ \E c \in 1..MaxCxn : PollTimer(c)
    \/ \E r \in 1..MaxCalls : \E f \in {g \in OfferFrames : g.transaction = r} :
            HttpSendSuccess(r, f)
    \/ \E c \in 1..MaxCxn : WsOpen(c)
    \/ \E c \in 1..MaxCxn, f \in OfferFrames : WsMessage(c, f)
    \/ \E h \in NegPlugins, v \in SdpVals : OfferCreated(h, v)
    \/ \E h \in NegPlugins, v \in SdpVals : AnswerCreated(h, v)
    \/ \E h \in NegPlugins, k \in {"offer", "answer"} : CapabilityRejects(h, k)

OfferSpec == Init /\ [][OfferNext]_vars

\* Attach / detach round trips of one plugin: the application alternates
\* attach(session) and detach() on it, starting with attach, and calls
\* detach() once the plugin is attached.  The gateway answers every request
\* with a well-formed success frame.
RtPlugins == {1}

RtFrames ==
    {Frame("success", t, Undef, Absent, NoJsep, d) : t \in Issued, d \in Ids}
    \cup {Frame("event", Null, k, Undef, NoJsep, NoData) : k \in Ids}

RtAttach(h) ==
    /\ hist[h].turn = "attach"
    /\ Step([attach(Cur, h) EXCEPT !.hist[h].turn = "detach"])

RtDetach(h) ==
    /\ hist[h].turn = "detach"
    /\ isAttached(plugin[h])
    /\ Step([detach(Cur, h) EXCEPT !.hist[h].turn = "attach"])

RtNext ==
    \/ CallRoom /\ ConnRoom /\ Connect
    \/ \E h \in RtPlugins : CallRoom /\ RtAttach(h)
    \/ \E h \in RtPlugins : RtDetach(h)
    \/ \E r \in 1..MaxCalls, d \in Ids : HttpSetupSuccess(r, d)
    \/ \E c \in 1..MaxCxn, f \in RtFrames : HttpPollSuccess(c, f)
    \/ \E c \in 1..MaxCxn : PollTimer(c)
    \/ \E r \in 1..MaxCalls : \E f \in {g \in RtFrames : g.transaction = r} :
            HttpSendSuccess(r, f)
    \/ \E c \in 1..MaxCxn : WsOpen(c)
    \/ \E c \in 1..MaxCxn, f \in RtFrames : WsMessage(c, f)

RtSpec == Init /\ [][RtNext]_vars

\* Transport ownership: connect(), disconnect() and reconnect() in any
\* order, also while a handshake is pending, with every transport event.
\* No plugin is attached.
TransportRoom == isConnected(Cur) \/ Len(conns) < MaxTransports

\* What a create response may carry: an id, a data object without id, or
\* no data object at all.
CxnPayloads == {1, Undef, NoData}

\* With no plugin attached the frames that matter are the answers to the
\* session's own requests: success (with or without an id), error and ack.
CxnFrames ==
    {f \in Frames(Issued, {}) :
        /\ f.janus \in {"success", "error", "ack"}
        /\ f.transaction # Null /\ f.plugindata = Absent
        /\ f.data \in CxnPayloads}

CxnNext ==
    \/ CallRoom /\ TransportRoom /\ Connect
    \/ CallRoom /\ Disconnect
    \/ Len(calls) + 1 < MaxCalls /\ Len(conns) < MaxTransports /\ Reconnect
    \/ \E r \in DOMAIN calls, d \in CxnPayloads : HttpSetupSuccess(r, d)
    \/ \E r \in DOMAIN calls : HttpSetupError(r)
    \/ \E c \in DOMAIN conns, f \in CxnFrames : HttpPollSuccess(c, f)
    \/ \E c \in DOMAIN conns : HttpPollError(c)
    \/ \E c \in DOMAIN conns : PollTimer(c)
    \/ \E r \in DOMAIN calls : \E f \in {g \in CxnFrames : g.transaction = r} : HttpSendSuccess(r, f)
    \/ \E r \in DOMAIN calls : HttpSendError(r)
    \/ \E c \in DOMAIN conns : WsOpen(c)
    \/ \E c \in DOMAIN conns, f \in CxnFrames : WsMessage(c, f)
    \/ \E c \in DOMAIN conns : WsClose(c)
    \/ \E c \in DOMAIN conns : KeepAliveTimer(c)
    \/ \E r \in DOMAIN calls : RunDeferred(r)

CxnSpec == Init /\ [][CxnNext]_vars

\* The media attribute: a plugin constructed with any media record (or
\* none) on which the application calls createPeerConnection(), which asks
\* the predicates whether local media has to be captured first, and
\* hangupPeerConnection().
MediaPlugins == {1}

MediaRecords ==
    {NoMedia} \cup
    [present : {TRUE}, audio : KindFlags, video : KindFlags,
     audioRecv : Flags, audioSend : Flags, videoRecv : Flags, videoSend : Flags,
     data : {"true", "false"}]

MediaInit ==
    /\ server = "http"
    /\ sessionId = Null
    /\ cxn = Null
    /\ transactions = {}
    /\ plugins = [k \in Keys |-> Null]
    /\ \E m \in MediaRecords :
           plugin = [h \in Plugins |->
                        IF h \in MediaPlugins
                        THEN [PluginDefaults EXCEPT !.media = m]
                        ELSE PluginDefaults]
    /\ conns = <<>>
    /\ calls = <<>>
    /\ emitted = <<>>
    /\ thrown = FALSE
    /\ hist = [h \in Plugins |-> HistDefaults]

MediaNext ==
    \/ \E h \in MediaPlugins : CreatePeerConnection(h)
    \/ \E h \in MediaPlugins : HangupPeerConnection(h)
    \/ \E h \in MediaPlugins : GetUserMedia(h)
    \/ \E h \in MediaPlugins, k \in {"none", "app"} : MediaCaptured(h, k)
    \/ \E h \in MediaPlugins, k \in {"none", "app"} : MediaDenied(h, k)

MediaSpec == MediaInit /\ [][MediaNext]_vars

\* ICE on one plugin constructed with iceTrickle true or false: the
\* lifecycle needed to attach it, createPeerConnection,
\* hangupPeerConnection, the capability's candidate events (also those of
\* a replaced peer connection) and the application's own sendIceCandidate.
IcePlugins == {1}

IceFrames ==
    {Frame("success", t, Undef, Absent, NoJsep, NegId) : t \in Issued}
    \cup {Frame("ack", t, Undef, Absent, NoJsep, NoData) : t \in Issued}

IceInit ==
    /\ server \in {"http", "ws"}
    /\ sessionId = Null
    /\ cxn = Null
    /\ transactions = {}
    /\ plugins = [k \in Keys |-> Null]
    /\ \E b \in BOOLEAN :
           plugin = [h \in Plugins |->
                        IF h \in IcePlugins
                        THEN [PluginDefaults EXCEPT !.iceTrickle = b]
                        ELSE PluginDefaults]
    /\ conns = <<>>
    /\ calls = <<>>
    /\ emitted = <<>>
    /\ thrown = FALSE
    /\ hist = [h \in Plugins |-> HistDefaults]

IceNext ==
    \/ CallRoom /\ ConnRoom /\ Connect
    \/ CallRoom /\ Disconnect
    \/ \E h \in IcePlugins : CallRoom /\ Attach(h)
    \/ \E h \in IcePlugins : CreatePeerConnection(h)
    \/ \E h \in IcePlugins : HangupPeerConnection(h)
    \/ \E h \in IcePlugins, found \in BOOLEAN : CallRoom /\ IceCandidate(h, found)
    \/ \E h \in IcePlugins, cand \in {Candidate, Completed, NoCandidate} :
            CallRoom /\ SendIceCandidate(h, cand)
    \/ \E r \in 1..MaxCalls : HttpSetupSuccess(r, NegId)
    \/ \E c \in 1..MaxCxn, f \in IceFrames : HttpPollSuccess(c, f)
    \/ \E c \in 1..MaxCxn : PollTimer(c)
    \/ \E r \in 1..MaxCalls : \E f \in {g \in IceFrames : g.transaction = r} :
            HttpSendSuccess(r, f)
    \/ \E r \in 1..MaxCalls : HttpSendError(r)
    \/ \E c \in 1..MaxCxn : WsOpen(c)
    \/ \E c \in 1..MaxCxn, f \in IceFrames : WsMessage(c, f)
    \/ \E r \in 1..MaxCalls : RunDeferred(r)

IceSpec == IceInit /\ [][IceNext]_vars

\* Peer-connection creation driven by inbound events: one plugin built
\* with audio sending enabled is attached, the application never calls
\* createPeerConnection itself, and the gateway sends events that carry a
\* jsep.  Up to MaxCaptures capability callbacks may be pending at once.
PcPlugins == {1}
PcMedia == [DefaultMedia EXCEPT !.audioSend = "true"]

PcFrames == {Frame("event", Null, NegId, Undef, js, NoData) : js \in Jseps}

PcInit ==
    /\ server = "http"
    /\ sessionId = Null
    /\ cxn = Null
    /\ transactions = {}
    /\ plugins = [k \in Keys |-> Null]
    /\ plugin = [h \in Plugins |->
                    IF h \in PcPlugins
                    THEN [PluginDefaults EXCEPT !.media = PcMedia]
                    ELSE PluginDefaults]
    /\ conns = <<>>
    /\ calls = <<>>
    /\ emitted = <<>>
    /\ thrown = FALSE
    /\ hist = [h \in Plugins |-> HistDefaults]

PcStep(s) ==
    /\ \A h \in Plugins : TaskCount(s.plugin[h]) <= MaxCaptures
    /\ Commit(s)

PcPollSuccess(c, f) ==
    /\ c \in DOMAIN conns
    /\ conns[c].poll = "inflight"
    /\ PcStep(httpPollSuccess(Cur, c, f))

PcPollTimer(c) ==
    /\ c \in DOMAIN conns
    /\ conns[c].poll = "timer"
    /\ PcStep(httpPoll([Cur EXCEPT !.conns[c].polls = @ - 1], c, conns[c].retries))

PcCaptured(h, k) ==
    /\ plugin[h].tasks[CaptureKind(k)] > 0
    /\ PcStep(mediaCaptured(DropTask(Cur, h, CaptureKind(k)), h, k))

PcDenied(h, k) ==
    /\ plugin[h].tasks[CaptureKind(k)] > 0
    /\ PcStep(DropTask(Cur, h, CaptureKind(k)))

PcReady(h, type) ==
    LET k == IF type = "offer" THEN "deferOffer" ELSE "deferAnswer" IN
    /\ plugin[h].tasks[k] > 0
    /\ PcStep(setRemoteDescription(DropTask(Cur, h, k), h, type))

PcRemoteAccepted(h, type) ==
    LET k == IF type = "offer" THEN "remoteOffer" ELSE "remoteAnswer" IN
    /\ plugin[h].tasks[k] > 0
    /\ PcStep(remoteAccepted(DropTask(Cur, h, k), h, type))

PcAnswerCreated(h, v) ==
    /\ plugin[h].tasks["answer"] > 0
    /\ PcStep(descriptionCreated(DropTask(Cur, h, "answer"), h, "answer", v))

PcNext ==
    \/ CallRoom /\ ConnRoom /\ Connect
    \/ \E h \in PcPlugins : CallRoom /\ Attach(h)
    \/ \E r \in 1..MaxCalls : HttpSetupSuccess(r, NegId)
    \/ \E r \in 1..MaxCalls : HttpSendSuccess(r, SuccessFrame(r, NegId))
    \/ \E c \in 1..MaxCxn, f \in PcFrames : PcPollSuccess(c, f)
    \/ \E c \in 1..MaxCxn : PcPollTimer(c)
    \/ \E h \in PcPlugins, k \in {"deferOffer", "deferAnswer"} : PcCaptured(h, k)
    \/ \E h \in PcPlugins, k \in {"deferOffer", "deferAnswer"} : PcDenied(h, k)
    \/ \E h \in PcPlugins, ty \in Jseps : PcReady(h, ty)
    \/ \E h \in PcPlugins, ty \in Jseps : PcRemoteAccepted(h, ty)
    \/ \E h \in PcPlugins, v \in SdpVals : PcAnswerCreated(h, v)

PcSpec == PcInit /\ [][PcNext]_vars

\* ==================================================================
\* Claims
\* ==================================================================
EmptyPlugins == [k \in Keys |-> Null]
AllFrames == Frames(Issued, Jseps)
Replays(r) == {f \in AllFrames : f.transaction = r}

\* C1 (amended): the function registered under a token is run at most
\* once and its entry is gone once it has run; a later frame carrying that
\* token runs no completion callback and leaves the registry unchanged,
\* and unless it is an event frame (which is still forwarded to the plugin
\* its sender addresses) it changes nothing at all.
C1_ResolvedOnce ==
    \A r \in DOMAIN calls :
        /\ calls[r].fired <= 1
        /\ calls[r].fired = 1 => r \notin transactions
        /\ calls[r].fired = 1 =>
               \A f \in Replays(r) :
                   LET s == handleEvent(Cur, f) IN
                   /\ s.transactions = transactions
                   /\ s.calls = calls
                   /\ f.janus # "event" => s = Cur

\* C1 witness: a token was resolved through the registry while a channel
\* that can deliver a replay of its frame is still open.
C1_Witness ==
    \E r \in DOMAIN calls, c \in DOMAIN conns :
        /\ calls[r].fired = 1
        /\ conns[c].ws = "open" \/ conns[c].poll = "inflight"
        /\ \E k \in Keys : plugins[k] # Null

\* C1 as stated: a later frame carrying a resolved token invokes nothing
\* and changes no state.
C1_Original ==
    \A r \in DOMAIN calls :
        /\ calls[r].fired <= 1
        /\ calls[r].fired = 1 => r \notin transactions
        /\ calls[r].fired = 1 =>
               \A f \in Replays(r) : handleEvent(Cur, f) = Cur

\* C2: in the step that runs the success or the error continuation of a
\* disconnect(), the session ends with an empty plugins map, an empty
\* transaction registry, no id and no cxn.
C2_DisconnectCleans ==
    [][\A r \in DOMAIN calls :
          (/\ calls[r].op = "destroy"
           /\ calls'[r].succ + calls'[r].err > calls[r].succ + calls[r].err)
          => /\ plugins' = EmptyPlugins
             /\ transactions' = {}
             /\ sessionId' = Null
             /\ cxn' = Null]_vars

\* C2 witness: a disconnect() whose transport close failed has completed,
\* and its cleanup detached a plugin and dropped the session id.
C2_Witness ==
    \E r \in DOMAIN calls :
        /\ calls[r].op = "destroy" /\ calls[r].err = 1
        /\ \E i \in DOMAIN emitted : emitted[i].ev = "janus:detach"
        /\ \E i \in DOMAIN emitted :
               emitted[i].ev = "janus:disconnect" /\ emitted[i].arg \in Ids

\* ---- notifications of one handler
Count(seq, ev, src, arg) ==
    Cardinality({i \in DOMAIN seq :
        seq[i].ev = ev /\ seq[i].src = src /\ seq[i].arg = arg})
Has(seq, ev) == \E i \in DOMAIN seq : seq[i].ev = ev

\* Every plugin is in the map under its own gateway-assigned id, only.
WellKeyed ==
    \A k \in Keys : plugins[k] # Null => (k \in Ids /\ plugin[plugins[k]].id = k)

\* C3: when a connected session with an id loses its connection (the step
\* that emits janus:disconnect), every plugin that was in the map ends with
\* no id, no session, no peer connection and cleared negotiation state and
\* emitted exactly one janus:detach, all of them before the single
\* janus:disconnect, which carries the id the session had.
C3_LossDetachesAll ==
    [][(/\ cxn # Null /\ sessionId \in Ids /\ WellKeyed
        /\ Has(emitted', "janus:disconnect")) =>
          /\ \A k \in Keys : plugins[k] # Null =>
                LET h == plugins[k] IN
                /\ plugin'[h].id = Null /\ ~plugin'[h].session
                /\ ~plugin'[h].pc /\ plugin'[h].sdp = NoSdp /\ ~plugin'[h].sdpSent
                /\ Count(emitted', "janus:detach", "plugin", h) = 1
          /\ \A i, j \in DOMAIN emitted' :
                (emitted'[i].ev = "janus:detach" /\ emitted'[j].ev = "janus:disconnect")
                => i < j
          /\ Count(emitted', "janus:disconnect", "session", sessionId) = 1
          /\ Cardinality({i \in DOMAIN emitted' :
                             emitted'[i].ev = "janus:disconnect"}) = 1]_vars

\* C4: an attach request that was pending in the registry when the
\* connection was lost gets its failure continuation invoked; stated so that
\* a finite run refutes it: once nothing is left that could still deliver an
\* outcome for the request (it is out of the registry and no ajax request of
\* it is outstanding), the failure continuation has run.
C4_DrainedWithFailure ==
    \A r \in DOMAIN calls :
        (calls[r].op = "attach" /\ calls[r].lost /\ calls[r].net # "inflight")
        => calls[r].err >= 1

\* C5: detach() on an attached plugin sends a detach request; on a plugin
\* that is not attached it releases the local resources at once.
C5_DetachSendsOrReleases ==
    \A h \in Plugins :
        LET s == detach(Cur, h) IN
        IF isAttached(plugin[h])
        THEN \E r \in DOMAIN s.calls :
                 r \notin DOMAIN calls /\ s.calls[r].op = "detach" /\ s.calls[r].h = h
        ELSE /\ ~s.plugin[h].pc /\ ~s.plugin[h].localStream
             /\ s.plugin[h].sdp = NoSdp /\ ~s.plugin[h].sdpSent

\* C6: a hangup or detached frame whose sender is a key of the map
\* force-detaches that plugin: it leaves the map, its id becomes null and
\* exactly one janus:detach fires.
C6_HangupDetaches ==
    \A k \in Ids, j \in {"hangup", "detached"} :
        plugins[k] # Null =>
            LET h == plugins[k]
                s == handleEvent(Cur, Frame(j, Null, k, Absent, NoJsep, NoData)) IN
            /\ s.plugins[k] = Null
            /\ s.plugin[h].id = Null
            /\ Count(s.emitted, "janus:detach", "plugin", h) = 1

\* C7: a successful attach records the id, stores the plugin under it and
\* emits janus:attach; a failed attach (delivery failure or an error frame)
\* leaves id and map as they were, emits no janus:attach and runs the
\* caller's error continuation.
AttachPending ==
    {r \in transactions : calls[r].op = "attach" /\ sessionId \in Ids /\ WellKeyed}

C7_AttachOutcome ==
    \A r \in AttachPending :
        LET h == calls[r].h IN
        /\ \A d \in Ids :
              LET s == handleEvent(Cur, SuccessFrame(r, d)) IN
              /\ s.plugin[h].id = d /\ s.plugins[d] = h
              /\ Count(s.emitted, "janus:attach", "plugin", h) = 1
        /\ \A s \in {handleEvent(Cur, ErrorFrame(r))}
                    \cup (IF calls[r].net = "inflight"
                          THEN {httpSendError(Cur, r)} ELSE {}) :
              /\ s.plugin[h].id = plugin[h].id
              /\ s.plugins = plugins
              /\ ~Has(s.emitted, "janus:attach")
              /\ s.calls[r].err = calls[r].err + 1
              /\ s.calls[r].succ = calls[r].succ

\* C8: an error frame carrying a pending request's token runs the caller's
\* failure continuation and not its success continuation, and leaves the
\* session connected: id, cxn, map and the other pending transactions stay.
C8_ErrorFrameFails ==
    \A r \in transactions :
        (calls[r].op \in {"attach", "message", "trickle"} /\ sessionId \in Ids) =>
        LET s == handleEvent(Cur, ErrorFrame(r)) IN
        /\ s.calls[r].err = calls[r].err + 1
        /\ s.calls[r].succ = calls[r].succ
        /\ s.sessionId = sessionId /\ s.cxn = cxn
        /\ s.plugins = plugins
        /\ s.transactions = transactions \ {r}

\* C9: with attach and detach alternating on a plugin, once every response
\* has been handled no token of those requests is left in the registry and
\* the plugin is in the map under exactly one key, its current id.
Settled(h) ==
    \A r \in DOMAIN calls :
        calls[r].h = h => (calls[r].net \in {"done", "ws"} /\ r \notin transactions)

C9_RoundTripNoLeak ==
    \A h \in RtPlugins :
        (Settled(h) /\ isAttached(plugin[h])) =>
            {k \in Keys : plugins[k] = h} = {plugin[h].id}

\* C10: only the first description the capability produced since the
\* negotiation state was last cleared is the local description, and while
\* the Handle has its session the next sendMessage without options.jsep
\* after it was set carries exactly it.
C10_FirstDescriptionKept ==
    \A h \in Plugins :
        /\ plugin[h].sdp # NoSdp => plugin[h].sdp = hist[h].first
        /\ (plugin[h].sdp # NoSdp /\ ~hist[h].plain
                /\ plugin[h].session /\ cxn # Null) =>
               LET s == sendMessage(Cur, h, NoSdp) IN
               s.calls[Len(s.calls)].jsep = hist[h].first

\* C11: when the capability accepts a remote offer applied to an attached
\* plugin that has no local description, createAnswer is invoked (one more
\* createAnswer is pending); when that createAnswer later produces its
\* answer, the answer becomes the local description, tagged answer and not
\* marked sent; accepting a remote description of another type invokes no
\* createAnswer.
C11_OfferAnswered ==
    \A h \in Plugins :
        /\ (isAttached(plugin[h]) /\ plugin[h].sdp = NoSdp
                /\ plugin[h].tasks["remoteOffer"] > 0) =>
              remoteAccepted(DropTask(Cur, h, "remoteOffer"), h, "offer")
                  .plugin[h].tasks["answer"] = plugin[h].tasks["answer"] + 1
        /\ (hist[h].auto /\ plugin[h].tasks["answer"] > 0) =>
              \A v \in SdpVals :
                  LET s == descriptionCreated(DropTask(Cur, h, "answer"),
                                              h, "answer", v) IN
                  /\ s.plugin[h].sdp = <<"answer", v>>
                  /\ ~s.plugin[h].sdpSent
        /\ (isAttached(plugin[h]) /\ plugin[h].sdp = NoSdp
                /\ plugin[h].tasks["remoteAnswer"] > 0) =>
              remoteAccepted(DropTask(Cur, h, "remoteAnswer"), h, "answer")
                  .plugin[h].tasks["answer"] = plugin[h].tasks["answer"]

\* ---- one poll of connection c failed in this step
PollFailed(c) == conns'[c].fails = conns[c].fails + 1
SessionState == <<sessionId, cxn, transactions, plugins, plugin, calls>>
Notified(seq, ev) == Cardinality({i \in DOMAIN seq : seq[i].ev = ev})

\* What a failed poll that is not the maxPollRetries-th in a row does: it
\* schedules a retry that carries the count, and reaches the session not at
\* all.  The count a poll carries is the number of failures since the last
\* successful poll, so it is zero only after a success (or at the start).
PollRetryOnly(c) ==
    /\ conns'[c].poll = "timer"
    /\ conns'[c].retries = conns'[c].fails
    /\ emitted' = <<>>
    /\ SessionState' = SessionState

PollCounts ==
    \A c \in DOMAIN conns' :
        /\ conns'[c].fails <= maxPollRetries
        /\ conns'[c].poll \in {"inflight", "timer"} =>
               conns'[c].retries = conns'[c].fails

\* C12 (amended): on a poll transport that is still connected, the
\* maxPollRetries-th consecutive poll failure, and only it, gives the session
\* exactly one janus:error "connection" and exactly one disconnect cascade,
\* and leaves no poll outstanding or scheduled; an earlier failure only
\* schedules a retry; the count is reset by a successful poll only.  On a
\* transport that disconnect() has already closed the last failure ends the
\* loop without notifying the session.
C12_PollExhaustion ==
    [][/\ PollCounts
       /\ \A c \in DOMAIN conns :
            PollFailed(c) =>
                IF conns'[c].fails < maxPollRetries
                THEN PollRetryOnly(c)
                ELSE /\ conns'[c].poll = "none"
                     /\ IF conns[c].connected
                        THEN /\ Count(emitted', "janus:error", "session", "connection") = 1
                             /\ Notified(emitted', "janus:error") = 1
                             /\ Notified(emitted', "janus:disconnect") = 1
                             /\ cxn' = Null /\ sessionId' = Null
                             /\ plugins' = EmptyPlugins /\ transactions' = {}
                        ELSE /\ emitted' = <<>>
                             /\ SessionState' = SessionState]_vars

\* C12 witness: the third failure in a row on a connected transport has
\* just disconnected a session that had a plugin attached.
C12_Witness ==
    \E c \in DOMAIN conns :
        /\ conns[c].fails = maxPollRetries /\ conns[c].connected
        /\ Has(emitted, "janus:disconnect") /\ Has(emitted, "janus:detach")

\* C12 as stated: the maxPollRetries-th consecutive failure of any poll
\* transport notifies the session once and runs one cascade.
C12_Original ==
    [][/\ PollCounts
       /\ \A c \in DOMAIN conns :
            PollFailed(c) =>
                IF conns'[c].fails < maxPollRetries
                THEN PollRetryOnly(c)
                ELSE /\ conns'[c].poll = "none"
                     /\ Notified(emitted', "janus:error") = 1
                     /\ Notified(emitted', "janus:disconnect") = 1]_vars

\* ---- what the claim says a direction predicate returns for media m, the
\* parent flag being m[kind] and the direction flag m[dir]
MediaRule(m, kind, dir, result) ==
    /\ ~m.present => result
    /\ (m.present /\ m[kind] = "false") => ~result
    /\ (m.present /\ m[kind] # "false" /\ m[dir] \in {"undefined", "null"}) => result
    /\ (m.present /\ m[kind] # "false" /\ m[dir] \in {"true", "false"}) =>
           (result <=> m[dir] = "true")

\* C13: each of the four direction predicates is true for an absent media,
\* false when the parent kind flag is false, true when the direction flag
\* is absent and the parent is not false, and otherwise the direction flag.
C13_MediaDirections ==
    \A h \in Plugins :
        LET m == plugin[h].media IN
        /\ MediaRule(m, "audio", "audioSend", isAudioSendEnabled(m))
        /\ MediaRule(m, "audio", "audioRecv", isAudioRecvEnabled(m))
        /\ MediaRule(m, "video", "videoSend", isVideoSendEnabled(m))
        /\ MediaRule(m, "video", "videoRecv", isVideoRecvEnabled(m))

\* C13 witness: audio is false while audioSend is true and video is not to
\* be sent; createPeerConnection() captured nothing and went on to construct
\* the peer connection.
C13_Witness ==
    \E h \in MediaPlugins :
        LET m == plugin[h].media IN
        /\ m.present /\ m.audio = "false" /\ m.audioSend = "true"
        /\ m.video = "other" /\ m.videoSend = "false"
        /\ thrown /\ ~plugin[h].localStream /\ TaskCount(plugin[h]) = 0

\* ---- Connections that are connected with their poll or keep-alive loop
\* running
ActiveTransports ==
    {c \in DOMAIN conns :
        /\ conns[c].connected
        /\ conns[c].poll \in {"inflight", "timer"} \/ conns[c].ka > 0}

\* C14: at most one Connection is connected with its loop running, and
\* connect() on a connected session constructs no Connection and reports
\* success (its deferred options.success is the caller's own).
C14_OneActiveTransport ==
    /\ Cardinality(ActiveTransports) <= 1
    /\ isConnected(Cur) =>
           LET s == connect(Cur, Null)
               r == Len(s.calls) IN
           /\ s.conns = conns
           /\ s.calls[r].net = "deferred"
           /\ runDeferred(s, r).calls[r].succ = 1
           /\ runDeferred(s, r).conns = conns

\* ---- connect() call r has failed in state s: the caller's error
\* continuation ran, no janus:connect, no cxn, no id
ConnectFailed(s, r) ==
    /\ s.calls[r].err = calls[r].err + 1
    /\ s.calls[r].succ = calls[r].succ
    /\ ~Has(s.emitted, "janus:connect")
    /\ s.cxn = Null /\ s.sessionId = Null

\* The ways the handshake of the pending connect() call r can end without a
\* session id, each as the state after the handler that sees it.
HandshakeFailures(r) ==
    LET c == calls[r].c IN
    IF server = "http"
    THEN IF calls[r].net = "inflight"
         THEN {httpSetupError(Cur, r),              \* the request fails
               httpSetupSuccess(Cur, r, NoData),    \* an error frame: no json.data
               httpSetupSuccess(Cur, r, Undef)}     \* json.data without id
         ELSE {}
    ELSE IF conns[c].ws = "connecting"
         THEN {wsOnClose(Cur, c)}                   \* closes before it is ready
         ELSE IF conns[c].ws = "open" /\ r \in transactions
         THEN {wsOnClose(Cur, c),                   \* closes before the response
               handleEvent(Cur, ErrorFrame(r)),
               handleEvent(Cur, SuccessFrame(r, NoData)),
               handleEvent(Cur, SuccessFrame(r, Undef))}
         ELSE {}

\* C15: whenever the handshake of a connect() on a disconnected session
\* ends without a session id, the caller's error continuation is invoked,
\* no janus:connect is emitted and the session has no cxn and no id.
C15_ConnectFails ==
    \A r \in DOMAIN calls :
        (calls[r].op = "create" /\ cxn = Null /\ sessionId = Null) =>
            \A s \in HandshakeFailures(r) : ConnectFailed(s, r)

\* ---- the continuation reconnect() handed to disconnect() runs in this
\* step, for the reconnect call r
ReconnectCompletes(r) ==
    /\ calls[r].op = "reconnect"
    /\ calls'[r].succ + calls'[r].err > calls[r].succ + calls[r].err

\* C16: the continuation of a reconnect() runs at most once, whether the
\* close succeeded or failed, and the step in which it runs has cleaned up
\* (janus:disconnect emitted, map and registry empty, id null) and then
\* called connect() once: exactly one create call and one Connection more.
C16_ReconnectOnce ==
    [][\A r \in DOMAIN calls :
          ReconnectCompletes(r) =>
              /\ calls'[r].succ + calls'[r].err = 1
              /\ Notified(emitted', "janus:disconnect") = 1
              /\ plugins' = EmptyPlugins /\ transactions' = {}
              /\ sessionId' = Null /\ cxn' = Null
              /\ Len(calls') = Len(calls) + 1
              /\ calls'[Len(calls')].op = "create"
              /\ Len(conns') = Len(conns) + 1
              /\ ~conns'[Len(conns')].connected]_vars

\* C17: in every reachable state a Handle that has no session has no id
\* and no live peer connection.
C17_NoSessionNoIdNoPc ==
    \A h \in Plugins :
        ~plugin[h].session => (plugin[h].id = Null /\ ~plugin[h].pc)

\* A frame the session has no use for: its kind is none of the kinds
\* handleEvent knows, or it is a hangup, detached or event frame whose
\* sender is not a key of the handle map.
KnownKinds ==
    {"success", "error", "keepalive", "ack", "webrtcup", "hangup",
     "detached", "event"}

Unaddressed(f) ==
    \/ f.janus \notin KnownKinds \cup {"batch"}
    \/ f.janus \in {"hangup", "detached", "event"} /\ plugins[f.sender] = Null

\* C18: handling a frame of unrecognized kind, or a hangup, detached or
\* event frame whose sender is not in the handle map, changes nothing (id,
\* transport, handle map, every Handle, registry) and emits nothing.
C18_UnaddressedIgnored ==
    \A f \in AllFrames : Unaddressed(f) => handleEvent(Cur, f) = Cur

\* C18 witness: a Handle is attached, a request is pending, and an event
\* frame with plugin data that echoes the pending token names a sender the
\* handle map does not hold.
C18_Witness ==
    /\ \E k \in Keys : plugins[k] # Null
    /\ \E f \in AllFrames :
          /\ Unaddressed(f) /\ f.janus = "event" /\ f.sender # Undef
          /\ f.plugindata # Absent /\ f.transaction \in transactions
          /\ handleEvent(Cur, f) = Cur

\* C19: a success, ack, keepalive or webrtcup frame whose transaction
\* token is in the registry resolves that transaction (its function runs)
\* and removes it from the registry.
C19_AckResolves ==
    \A f \in AllFrames :
        (/\ f.janus \in {"success", "ack", "keepalive", "webrtcup"}
         /\ f.transaction \in transactions) =>
            LET s == handleEvent(Cur, f) IN
            /\ f.transaction \notin s.transactions
            /\ s.calls[f.transaction].fired = calls[f.transaction].fired + 1

\* An event frame that carries plugin data and the sender id of an attached
\* Handle: the handle map holds the Handle under that id, and the Handle has
\* its session and that id (isAttached()).
Addressed(f) ==
    /\ f.janus = "event" /\ f.sender # Undef /\ f.plugindata # Absent
    /\ plugins[f.sender] # Null
    /\ isAttached(plugin[plugins[f.sender]])
    /\ plugin[plugins[f.sender]].id = f.sender

\* C20: an event frame with the sender id of an attached Handle and plugin
\* data makes that Handle emit exactly one janus:event, with or without a
\* jsep, and a pending transaction under the frame's token is resolved and
\* removed; an event frame without sender or without plugin data reaches
\* no Handle.
C20_EventForwarded ==
    \A f \in AllFrames :
        LET s == handleEvent(Cur, f) IN
        /\ Addressed(f) =>
              /\ Notified(s.emitted, "janus:event") = 1
              /\ \E i \in DOMAIN s.emitted :
                    s.emitted[i] = [src |-> "plugin", ev |-> "janus:event",
                                    arg |-> plugins[f.sender]]
              /\ f.transaction \in transactions =>
                    /\ f.transaction \notin s.transactions
                    /\ s.calls[f.transaction].fired
                           = calls[f.transaction].fired + 1
        /\ (f.janus = "event" /\ (f.sender = Undef \/ f.plugindata = Absent)) =>
              s = Cur

\* C20 witness: an attached Handle has a request pending, and an event frame
\* with its sender id, plugin data, a jsep and the pending token makes it
\* emit janus:event and takes the token out of the registry.
C20_Witness ==
    \E f \in AllFrames :
        /\ Addressed(f) /\ f.jsep # NoJsep /\ f.transaction \in transactions
        /\ LET s == handleEvent(Cur, f) IN
           /\ ~s.thrown
           /\ Notified(s.emitted, "janus:event") = 1
           /\ f.transaction \notin s.transactions

\* Batches of at most two single frames.
SingleFrames == {f \in AllFrames : f.janus # "batch"}
Batches ==
    {<<>>} \cup {<<f>> : f \in SingleFrames}
    \cup {<<f, g>> : f \in SingleFrames, g \in SingleFrames}

\* C21: handling a batch [f1, ..., fn] leaves the session, the handles, the
\* registry and the notifications as handling f1, ..., fn one after another
\* as single frames does.
C21_BatchAsSingles ==
    \A fs \in Batches :
        [handleBatch(Cur, fs) EXCEPT !.thrown = FALSE]
            = [handleEach(Cur, fs, 1) EXCEPT !.thrown = FALSE]

\* The trickle requests among the calls of s issued after the first n.
TricklesSince(s, n, cand) ==
    {r \in (n + 1)..Len(s.calls) :
        s.calls[r].op = "trickle" /\ s.calls[r].jsep = cand}

\* C22: a local candidate is sent as a trickle request only while the
\* Handle's iceTrickle flag is set; the end of gathering sets iceDone and
\* produces exactly one signal: a trickle request with completed:true if
\* the flag is set, else a webrtc:icecomplete notification and no request.
C22_IcePolicy ==
    \A h \in IcePlugins :
        (plugin[h].pc \/ plugin[h].stale) =>
            LET n == Len(calls)
                s == onicecandidate(Cur, h, TRUE)
                d == onicecandidate(Cur, h, FALSE) IN
            /\ ~plugin[h].iceTrickle => Len(s.calls) = n
            /\ d.plugin[h].iceDone
            /\ plugin[h].iceTrickle =>
                  /\ Cardinality(TricklesSince(d, n, Completed)) = 1
                  /\ Len(d.calls) = n + 1
                  /\ Notified(d.emitted, "webrtc:icecomplete") = 0
            /\ ~plugin[h].iceTrickle =>
                  /\ Len(d.calls) = n
                  /\ Notified(d.emitted, "webrtc:icecomplete") = 1

\* The descriptor the request of sendMessage(h, j) carries.
Carried(s) == s.calls[Len(s.calls)].jsep

MessagePending == {r \in transactions : calls[r].op = "message"}

\* C23: sendMessage carries the explicit descriptor if one is given, else
\* the local description if there is one and it is not marked sent, else
\* none; the sent mark is set exactly when a send that carried a descriptor
\* succeeds, a send without descriptor or a failed send (delivery failure
\* or error frame) leaves it as it was; and once it is set a sendMessage
\* without explicit descriptor carries no descriptor.
C23_SendMessage ==
    /\ \A h \in NegPlugins, j \in {NoSdp, Explicit} :
          LET s == sendMessage(Cur, h, j)
              p == plugin[h] IN
          ~s.thrown =>
              /\ Len(s.calls) = Len(calls) + 1
              /\ j # NoSdp => Carried(s) = j
              /\ (j = NoSdp /\ p.sdp # NoSdp /\ ~p.sdpSent) => Carried(s) = p.sdp
              /\ (j = NoSdp /\ p.sdp = NoSdp) => Carried(s) = NoSdp
              /\ (j = NoSdp /\ p.sdpSent) => Carried(s) = NoSdp
              /\ s.plugin[h].sdpSent = p.sdpSent
    /\ \A r \in MessagePending :
          LET h  == calls[r].h
              ok == handleEvent(Cur, SuccessFrame(r, NegId)) IN
          /\ ok.plugin[h].sdpSent
                 = (calls[r].jsep # NoSdp \/ plugin[h].sdpSent)
          /\ \A s \in {handleEvent(Cur, ErrorFrame(r))}
                      \cup (IF calls[r].net = "inflight"
                            THEN {httpSendError(Cur, r)} ELSE {}) :
                s.plugin[h].sdpSent = plugin[h].sdpSent

\* A socket that can still close and that the session does not hold as its
\* transport, or that disconnect() / reconnect() closed through _wsClose.
ClosedLocally(c) == conns[c].ws = "closing"
Superseded(c) == conns[c].ws \in {"connecting", "open"} /\ cxn # c

\* C24: the close of a socket that was closed by disconnect() or replaced
\* by a reconnect, or that is not the session's transport, detaches no
\* Handle, leaves registry and session id as they are and emits no
\* janus:disconnect.
C24_StaleCloseIgnored ==
    \A c \in DOMAIN conns :
        (ClosedLocally(c) \/ Superseded(c)) =>
            LET s == wsOnClose(Cur, c) IN
            /\ s.sessionId = sessionId /\ s.cxn = cxn
            /\ s.transactions = transactions
            /\ s.plugins = plugins /\ s.plugin = plugin
            /\ Notified(s.emitted, "janus:disconnect") = 0

\* C25: a transport never has more than one poll outstanding or scheduled
\* nor more than one keep-alive timer pending; a keep-alive is sent only
\* while the transport is connected and the session has its id, registers
\* no transaction, and on a transport that is not connected _wsKeepAlive
\* sends nothing and schedules nothing.
C25_SingleFlight ==
    \A c \in DOMAIN conns :
        /\ conns[c].polls <= 1
        /\ conns[c].ka <= 1
        /\ LET s == wsKeepAlive(Cur, c) IN
              /\ s.transactions = transactions /\ s.calls = calls
              /\ ~conns[c].connected => s = Cur
              /\ wsKeepAliveSends(Cur, c) =>
                    conns[c].connected /\ sessionId \in Ids

\* C25 witness: a keep-alive timer is still pending on a socket transport
\* that is no longer connected.
C25_Witness ==
    \E c \in DOMAIN conns :
        /\ conns[c].ka = 1 /\ ~conns[c].connected /\ conns[c].ws # "none"
        /\ wsKeepAlive([Cur EXCEPT !.conns[c].ka = @ - 1], c).conns[c].ka = 0

\* A connect notification is not yet matched by a disconnect notification
\* exactly while the session holds an id: the success wrapper of connect()
\* sets the id and emits janus:connect, disconnected() clears the id and
\* emits janus:disconnect, and nothing else writes the id.
Announced == sessionId # Null

\* C26: connect and disconnect notifications alternate, starting with
\* connect: a step emits at most one of them, janus:connect only when none
\* is unmatched, janus:disconnect only when one is, carrying the id that
\* connect assigned.
C26_Alternation ==
    [][/\ Notified(emitted', "janus:connect")
            + Notified(emitted', "janus:disconnect") <= 1
       /\ Notified(emitted', "janus:connect") = 1 => ~Announced
       /\ Notified(emitted', "janus:disconnect") = 1 =>
             /\ Announced /\ sessionId \in Ids
             /\ \A i \in DOMAIN emitted' :
                   emitted'[i].ev = "janus:disconnect" =>
                       emitted'[i].arg = sessionId]_vars

\* The success continuation of call r was invoked (through the registry or
\* deferred); its failure continuation was invoked.
SuccessRan(r) == calls[r].fired > 0 \/ calls[r].succ > 0
FailureRan(r) == calls[r].err > 0

\* C27: of the success and the failure continuation of one request at most
\* one is ever invoked.
C27_OneOutcome ==
    \A r \in DOMAIN calls : ~(SuccessRan(r) /\ FailureRan(r))

\* C28: a Handle is in one of the states no-description, local description
\* created, local description sent: the sent mark is never set while the
\* Handle has no local description.
C28_NegotiationStates ==
    \A h \in Plugins : plugin[h].sdpSent => plugin[h].sdp # NoSdp

\* C29: a Handle that has a peer connection is never given another one
\* by a capture that was pending when the first was created: the
\* continuation of a pending getUserMedia does not construct a peer
\* connection on a Handle that already has one.
C29_OnePeerConnection ==
    \A h \in PcPlugins, k \in {"deferOffer", "deferAnswer"} :
        (plugin[h].pc /\ plugin[h].tasks[CaptureKind(k)] > 0) =>
            LET s == mediaCaptured(DropTask(Cur, h, CaptureKind(k)), h, k) IN
            s.plugin[h].tasks[k] = plugin[h].tasks[k]

\* The state detached() leaves a Handle in until it is attached again: no
\* session and no id.
Detached(h) == ~plugin[h].session /\ plugin[h].id = Null

\* C30: a detached Handle holds no local description, no sent mark, no
\* local stream and no peer connection, whatever capability callbacks
\* complete after the detach.
C30_DetachedIsClean ==
    \A h \in Plugins :
        Detached(h) =>
            /\ plugin[h].sdp = NoSdp /\ ~plugin[h].sdpSent
            /\ ~plugin[h].localStream /\ ~plugin[h].pc

====
